---- MODULE Spec2Model ----
(***************************************************************************)
(* Measurement-record reader of the stabilizer simulator: the five         *)
(* streaming decoders (01, B8, HITS, R8, DETS), their shared contract      *)
(* (start_record, next_record, read_bit, read_bits_into_bytes,             *)
(* is_end_of_record, current_result_type) and the bulk reader              *)
(* read_records_into.                                                      *)
(*                                                                         *)
(* Every C++ method is a pure operator from a reader state (a record of    *)
(* the object's fields plus the FILE offset) to the state after the call   *)
(* and the value returned; an exception or a failed assert is recorded in  *)
(* the field err together with the fields as the call left them.  The      *)
(* actions apply these operators to the one reader of the model.           *)
(***************************************************************************)
EXTENDS Integers, Sequences, FiniteSets, TLC

VARIABLES
    fmt,        \* SampleFormat of the reader made by MeasureRecordReader::make
    m,          \* n_measurements / bits_per_record
    d,          \* n_detection_events
    l,          \* n_logical_observables
    ndebug,     \* TRUE: built with NDEBUG, so assert(e) does not evaluate e
    in_bytes,   \* the content of FILE *in
    kind,       \* the family of inputs in_bytes is taken from
    truth,      \* the records in_bytes encodes (<< >> when it encodes none)
    wf,         \* TRUE when in_bytes is the writer's encoding of truth
    rd,         \* the reader object: its fields, the FILE offset, err
    op,         \* the last contract operation called
    retb,       \* its return value when it is a bool
    retn,       \* its return value when it is a size_t or a uint64_t
    retc,       \* its return value when it is a char ("" after the other operations)
    lex_next,   \* the int &next a lexer helper left to its caller
    outbuf,     \* the caller's buffer after the last read_bits_into_bytes
    pre,        \* position before the last operation
    ri,         \* number of start_record/next_record calls that returned true
    nstart,     \* number of start_record/next_record calls
    drained,    \* the caller kept the order: every start_record/next_record found
                \* the open record at end-of-record, next_record had one open
    was_end,    \* is_end_of_record held (returned true) just before the last operation
    table,      \* the simd_bit_table of read_records_into: rows of bytes
    table0,     \* the table as the caller passed it
    shots       \* max_shots of the last read_records_into call

vars == <<fmt, m, d, l, ndebug, in_bytes, kind, truth, wf, rd, op, retb, retn, retc,
          lex_next, outbuf,
          pre, ri, nstart, drained, was_end, table, table0, shots>>

(***************************************************************************)
(* Bytes.  getc returns an unsigned char value or EOF.                     *)
(***************************************************************************)
EOF == -1
NL == 10
SPACE == 32
COMMA == 44
CH0 == 48
CH1 == 49
CH9 == 57
CHD == 68
CHL == 76
CHM == 77
CONT == 255

\* "shot"
KW_SHOT == <<115, 104, 111, 116>>

Min(a, b) == IF a < b THEN a ELSE b

RECURSIVE Pow2(_)
Pow2(k) == IF k = 0 THEN 1 ELSE 2 * Pow2(k - 1)

\* the unsigned word of the model: uint64_t scaled to UintBits bits
UintBits == 8
UintMod == Pow2(UintBits)

(***************************************************************************)
(* The reader object.  One record holds the fields of all five variants;   *)
(* a variant leaves the fields of the others alone.                        *)
(***************************************************************************)
Width == m + d + l

ZeroBits(n) == [i \in 1..n |-> FALSE]

\* result of a call: the state after it and the value returned
Ret(s, v) == [s |-> s, ret |-> v]
\* a throw: the fields as they are, err set; the value is never delivered
Throw(s, e, v) == [s |-> [s EXCEPT !.err = e], ret |-> v]

Ok(s) == s.err = "none"

\* getc(in)
Peek(s) == IF s.off < Len(in_bytes) THEN in_bytes[s.off + 1] ELSE EOF
Adv(s) == IF s.off < Len(in_bytes) THEN [s EXCEPT !.off = @ + 1] ELSE s

isdigit(c) == c >= CH0 /\ c <= CH9

(***************************************************************************)
(* 01 format                                                               *)
(***************************************************************************)
Format01_read_bit(s) ==
    IF s.payload = EOF THEN Throw(s, "out_of_range", FALSE)
    ELSE IF s.payload = NL \/ s.position >= m THEN Throw(s, "out_of_range", FALSE)
    ELSE IF s.payload # CH0 /\ s.payload # CH1 THEN Throw(s, "runtime_error", FALSE)
    ELSE Ret([Adv(s) EXCEPT !.payload = Peek(s), !.position = s.position + 1],
             s.payload = CH1)

Format01_start_record(s) ==
    Ret([Adv(s) EXCEPT !.payload = Peek(s), !.position = 0], Peek(s) # EOF)

\* the while loop of next_record: position++ > bits_per_record tests the old value
RECURSIVE Format01_skip_line(_)
Format01_skip_line(s) ==
    IF s.payload # EOF /\ s.payload # NL
    THEN LET s1 == [Adv(s) EXCEPT !.payload = Peek(s), !.position = s.position + 1]
         IN  IF s.position > m
             THEN [s1 EXCEPT !.err = "runtime_error"]
             ELSE Format01_skip_line(s1)
    ELSE s

\* faulty variant: a next_record that leaves the rest of the line in the stream
Format01_next_record_no_skip(s) == Format01_start_record(s)

\* start_record() unless the loop before it threw
Format01_start_after(s1) == IF Ok(s1) THEN Format01_start_record(s1) ELSE Ret(s1, FALSE)

Format01_next_record(s) == Format01_start_after(Format01_skip_line(s))

\* faulty variant: an is_end_of_record that trusts the newline alone
Format01_is_end_of_record_unchecked(s) == Ret(s, s.payload = EOF \/ s.payload = NL)

Format01_is_end_of_record(s) ==
    LET payload_ended == s.payload = EOF \/ s.payload = NL
        expected_end == s.position >= m
    IN  IF payload_ended /\ ~expected_end THEN Throw(s, "invalid_argument", FALSE)
        ELSE IF ~payload_ended /\ expected_end THEN Throw(s, "invalid_argument", FALSE)
        ELSE Ret(s, payload_ended)

(***************************************************************************)
(* B8 format                                                               *)
(***************************************************************************)
FormatB8_maybe_update_payload(s) ==
    IF s.bits_available > 0 THEN s
    ELSE [Adv(s) EXCEPT !.payload = Peek(s),
                        !.bits_available = IF Peek(s) # EOF THEN 8 ELSE @]

\* read_bit after maybe_update_payload() left the state s1
FormatB8_take_bit(s1) ==
    IF s1.payload = EOF THEN Throw(s1, "out_of_range", FALSE)
    ELSE Ret([s1 EXCEPT !.payload = s1.payload \div 2,
                        !.bits_available = @ - 1,
                        !.position = @ + 1],
             s1.payload % 2 = 1)

FormatB8_read_bit(s) ==
    IF s.position >= m THEN Throw(s, "out_of_range", FALSE)
    ELSE FormatB8_take_bit(FormatB8_maybe_update_payload(s))

\* faulty variant: a start_record that never reports the end of the stream
FormatB8_started_always(s1) == Ret(s1, TRUE)

\* return payload != EOF;
FormatB8_started(s1) == Ret(s1, s1.payload # EOF)

FormatB8_start_record(s) ==
    FormatB8_started(FormatB8_maybe_update_payload(
                         [s EXCEPT !.position = 0, !.bits_available = 0, !.payload = 0]))

FormatB8_is_end_of_record(s) == Ret(s, s.position >= m)

\* while (!is_end_of_record()) read_bit();
RECURSIVE FormatB8_drain(_)
FormatB8_drained(r) == IF Ok(r.s) THEN FormatB8_drain(r.s) ELSE r.s

FormatB8_drain(s) ==
    IF FormatB8_is_end_of_record(s).ret THEN s ELSE FormatB8_drained(FormatB8_read_bit(s))

\* start_record() unless the loop before it threw
FormatB8_start_after(s1) == IF Ok(s1) THEN FormatB8_start_record(s1) ELSE Ret(s1, FALSE)

FormatB8_next_record(s) == FormatB8_start_after(FormatB8_drain(s))

\* fread(ptr, 1, n, in): the bytes read, at most n and at most what is left
fread(s, n) == SubSeq(in_bytes, s.off + 1, Min(s.off + n, Len(in_bytes)))

\* the block read of FormatB8::read_bits_into_bytes (bits_available = 0)
FormatB8_block_read(s, buf) ==
    LET n_bits == Min(8 * Len(buf), m - s.position)
        n_bytes == (n_bits + 7) \div 8
        got == fread(s, n_bytes)
        n_read == Len(got)
        n_out == Min(8 * n_read, n_bits)
    IN  [s |-> [s EXCEPT !.off = @ + n_read, !.position = @ + n_out],
         n |-> n_out,
         buf |-> [i \in 1..Len(buf) |-> IF i <= n_read THEN got[i] ELSE buf[i]]]

(***************************************************************************)
(* Lexer helpers                                                           *)
(***************************************************************************)
\* the for loop of maybe_consume_keyword from keyword[i] on, next already read
RECURSIVE consume_keyword_from(_, _, _, _)
consume_keyword_from(s, keyword, i, next) ==
    IF i > Len(keyword) THEN [s |-> s, found |-> TRUE, next |-> next]
    ELSE IF keyword[i] # next
    THEN [s |-> [s EXCEPT !.err = "runtime_error"], found |-> FALSE, next |-> next]
    ELSE consume_keyword_from(Adv(s), keyword, i + 1, Peek(s))

maybe_consume_keyword(s, keyword) ==
    IF Peek(s) = EOF THEN [s |-> Adv(s), found |-> FALSE, next |-> EOF]
    ELSE consume_keyword_from(Adv(s), keyword, 1, Peek(s))

\* the while loop of read_uint64: value is unsigned, so it wraps
RECURSIVE read_uint64_digits(_, _, _)
read_uint64_digits(s, value, next) ==
    IF isdigit(next)
    THEN LET v == (value * 10 + (next - CH0)) % UintMod
         IN  IF v < value
             THEN [s |-> [s EXCEPT !.err = "runtime_error"], ok |-> FALSE,
                   value |-> v, next |-> next]
             ELSE read_uint64_digits(Adv(s), v, Peek(s))
    ELSE [s |-> s, ok |-> TRUE, value |-> value, next |-> next]

read_uint64(s, next, include_next) ==
    LET c == IF include_next THEN next ELSE Peek(s)
        s0 == IF include_next THEN s ELSE Adv(s)
    IN  IF ~isdigit(c) THEN [s |-> s0, ok |-> FALSE, value |-> 0, next |-> c]
        ELSE read_uint64_digits(s0, 0, c)

(***************************************************************************)
(* Hits format                                                             *)
(***************************************************************************)
FormatHits_read_bit(s) ==
    IF s.position_in_buffer >= m THEN Throw(s, "invalid_argument", FALSE)
    ELSE Ret([s EXCEPT !.position_in_buffer = @ + 1], s.buffer[s.position_in_buffer + 1])

\* the while (c != '\n') loop of start_record
RECURSIVE FormatHits_parse_line(_, _, _)
\* faulty variant: the index equal to the width is let through (it toggles nothing)
FormatHits_parse_line_off_by_one(s, c, is_first) ==
    IF c = NL THEN Ret(s, TRUE)
    ELSE LET r == read_uint64(s, c, is_first)
         IN  IF ~Ok(r.s) THEN Ret(r.s, FALSE)
             ELSE IF ~r.ok THEN Throw(r.s, "runtime_error", FALSE)
             ELSE IF r.next # COMMA /\ r.next # NL THEN Throw(r.s, "runtime_error", FALSE)
             ELSE IF r.value > m THEN Throw(r.s, "runtime_error", FALSE)
             ELSE FormatHits_parse_line(r.s, r.next, FALSE)

FormatHits_parse_line(s, c, is_first) ==
    IF c = NL THEN Ret(s, TRUE)
    ELSE LET r == read_uint64(s, c, is_first)
         IN  IF ~Ok(r.s) THEN Ret(r.s, FALSE)
             ELSE IF ~r.ok THEN Throw(r.s, "runtime_error", FALSE)
             ELSE IF r.next # COMMA /\ r.next # NL THEN Throw(r.s, "runtime_error", FALSE)
             ELSE IF r.value >= m THEN Throw(r.s, "runtime_error", FALSE)
             ELSE FormatHits_parse_line(
                      [r.s EXCEPT !.buffer[r.value + 1] = ~@], r.next, FALSE)

\* faulty variant: a start_record that keeps the bits of the record before
FormatHits_start_record_no_clear(s) ==
    IF Peek(s) = EOF THEN Ret(Adv(s), FALSE)
    ELSE FormatHits_parse_line([Adv(s) EXCEPT !.position_in_buffer = 0], Peek(s), TRUE)

FormatHits_start_record(s) ==
    IF Peek(s) = EOF THEN Ret(Adv(s), FALSE)
    ELSE FormatHits_parse_line(
             [Adv(s) EXCEPT !.buffer = ZeroBits(Len(@)), !.position_in_buffer = 0],
             Peek(s), TRUE)

FormatHits_next_record(s) == FormatHits_start_record(s)

FormatHits_is_end_of_record(s) == Ret(s, s.position_in_buffer >= m)

(***************************************************************************)
(* R8 format                                                               *)
(***************************************************************************)
FormatR8_is_end_of_record(s) == Ret(s, s.position = m /\ s.have_seen_terminal_1)

\* do { r = getc(in); ... buffered_0s += r; } while (r == 0xFF); r is EOF when the
\* stream ended inside the loop
RECURSIVE FormatR8_count_zeroes(_)
FormatR8_count_zeroes(s) ==
    IF Peek(s) = EOF THEN [s |-> Adv(s), r |-> EOF]
    ELSE LET s1 == [Adv(s) EXCEPT !.buffered_0s = @ + Peek(s)]
         IN  IF Peek(s) = CONT THEN FormatR8_count_zeroes(s1) ELSE [s |-> s1, r |-> Peek(s)]

\* faulty variant: the byte after a run that ends the record is taken unchecked
FormatR8_check_terminal_any_byte(s) ==
    LET total_data == s.position + s.buffered_0s + s.buffered_1s
    IN  IF total_data = m
        THEN IF Peek(s) = EOF THEN Throw(Adv(s), "invalid_argument", FALSE)
             ELSE Ret([Adv(s) EXCEPT !.have_seen_terminal_1 = TRUE], TRUE)
        ELSE IF total_data = m + 1
        THEN Ret([s EXCEPT !.have_seen_terminal_1 = TRUE, !.buffered_1s = 0], TRUE)
        ELSE IF total_data > m + 1 THEN Throw(s, "invalid_argument", FALSE)
        ELSE Ret(s, TRUE)

\* faulty variant: a run that carries the post-end one also takes a terminator
FormatR8_check_terminal_always_terminated(s) ==
    LET total_data == s.position + s.buffered_0s + s.buffered_1s
    IN  IF total_data = m \/ total_data = m + 1
        THEN IF Peek(s) = EOF THEN Throw(Adv(s), "invalid_argument", FALSE)
             ELSE IF Peek(s) # 0 THEN Throw(Adv(s), "invalid_argument", FALSE)
             ELSE Ret([Adv(s) EXCEPT !.have_seen_terminal_1 = TRUE,
                                     !.buffered_1s = IF total_data = m THEN @ ELSE 0],
                      TRUE)
        ELSE IF total_data > m + 1 THEN Throw(s, "invalid_argument", FALSE)
        ELSE Ret(s, TRUE)

\* the part of maybe_buffer_data after the run is counted
FormatR8_check_terminal(s) ==
    LET total_data == s.position + s.buffered_0s + s.buffered_1s
    IN  IF total_data = m
        THEN IF Peek(s) = EOF THEN Throw(Adv(s), "invalid_argument", FALSE)
             ELSE IF Peek(s) # 0 THEN Throw(Adv(s), "invalid_argument", FALSE)
             ELSE Ret([Adv(s) EXCEPT !.have_seen_terminal_1 = TRUE], TRUE)
        ELSE IF total_data = m + 1
        THEN Ret([s EXCEPT !.have_seen_terminal_1 = TRUE, !.buffered_1s = 0], TRUE)
        ELSE IF total_data > m + 1 THEN Throw(s, "invalid_argument", FALSE)
        ELSE Ret(s, TRUE)

\* faulty variant: the end of the stream is taken as the end of the records wherever
\* it is met
FormatR8_after_count_any_end_clean(z) ==
    IF z.r = EOF THEN Ret(z.s, FALSE)
    ELSE FormatR8_check_terminal([z.s EXCEPT !.buffered_1s = 1])

\* after the do-while left z: the stream ended in it, or a run is counted
FormatR8_after_count(z) ==
    IF z.r = EOF
    THEN IF z.s.buffered_0s = 0 /\ z.s.position = 0
         THEN Ret(z.s, FALSE)
         ELSE Throw(z.s, "invalid_argument", FALSE)
    ELSE FormatR8_check_terminal([z.s EXCEPT !.buffered_1s = 1])

\* faulty variant: buffering that does not refuse to run at end-of-record
FormatR8_maybe_buffer_data_unguarded(s) ==
    IF ~ndebug /\ (s.buffered_0s # 0 \/ s.buffered_1s # 0) THEN Throw(s, "assert", FALSE)
    ELSE FormatR8_after_count(FormatR8_count_zeroes(s))

\* the two leading asserts are compiled only without NDEBUG
FormatR8_maybe_buffer_data(s) ==
    IF ~ndebug /\ (s.buffered_0s # 0 \/ s.buffered_1s # 0) THEN Throw(s, "assert", FALSE)
    ELSE IF FormatR8_is_end_of_record(s).ret THEN Throw(s, "invalid_argument", FALSE)
    ELSE FormatR8_after_count(FormatR8_count_zeroes(s))

\* assert(e) without NDEBUG, e already evaluated to r: abort when it is false
AssertTrue(r) ==
    IF ~Ok(r.s) THEN r.s
    ELSE IF ~r.ret THEN [r.s EXCEPT !.err = "assert"]
    ELSE r.s

\* assert(maybe_buffer_data()): with NDEBUG the call is not compiled at all
FormatR8_assert_maybe_buffer_data(s) ==
    IF ndebug THEN s ELSE AssertTrue(FormatR8_maybe_buffer_data(s))

\* read_bit after its buffering step left the state s1
FormatR8_emit(s1) ==
    IF ~Ok(s1) THEN Ret(s1, FALSE)
    ELSE IF s1.buffered_0s # 0
    THEN Ret([s1 EXCEPT !.buffered_0s = @ - 1, !.position = @ + 1], FALSE)
    ELSE IF s1.buffered_1s # 0
    THEN Ret([s1 EXCEPT !.buffered_1s = @ - 1, !.position = @ + 1], TRUE)
    ELSE Throw(s1, "invalid_argument", FALSE)

FormatR8_read_bit(s) ==
    FormatR8_emit(IF s.buffered_0s = 0 /\ s.buffered_1s = 0
                  THEN FormatR8_assert_maybe_buffer_data(s) ELSE s)

\* while (!is_end_of_record()) read_bit();
RECURSIVE FormatR8_drain(_)
FormatR8_drained(r) == IF Ok(r.s) THEN FormatR8_drain(r.s) ELSE r.s

FormatR8_drain(s) ==
    IF FormatR8_is_end_of_record(s).ret THEN s ELSE FormatR8_drained(FormatR8_read_bit(s))

FormatR8_start_record(s) ==
    FormatR8_maybe_buffer_data([s EXCEPT !.position = 0, !.have_seen_terminal_1 = FALSE])

\* start_record() unless the loop before it threw
FormatR8_start_after(s1) == IF Ok(s1) THEN FormatR8_start_record(s1) ELSE Ret(s1, FALSE)

FormatR8_next_record(s) == FormatR8_start_after(FormatR8_drain(s))

\* read_bits_into_bytes: about to fill bit k of byte i, n bits delivered so far
RECURSIVE FormatR8_fill(_, _, _, _, _)

\* after read_bit() (r): b |= uint8_t(bit) << k; ++n;
FormatR8_fill_bit(r, b0, i, k, n) ==
    IF ~Ok(r.s) THEN [s |-> r.s, n |-> n, buf |-> b0]
    ELSE IF k = 7
    THEN FormatR8_fill(r.s, [b0 EXCEPT ![i] = @ + (IF r.ret THEN Pow2(k) ELSE 0)],
                       i + 1, 0, n + 1)
    ELSE FormatR8_fill(r.s, [b0 EXCEPT ![i] = @ + (IF r.ret THEN Pow2(k) ELSE 0)],
                       i, k + 1, n + 1)

\* after the buffering step of the inner loop left the state s1
FormatR8_fill_buffered(s1, b0, i, k, n) ==
    IF ~Ok(s1) THEN [s |-> s1, n |-> n, buf |-> b0]
    ELSE IF FormatR8_is_end_of_record(s1).ret THEN [s |-> s1, n |-> n, buf |-> b0]
    ELSE FormatR8_fill_bit(FormatR8_read_bit(s1), b0, i, k, n)

\* faulty variant: the eight-zero fast path leaves the zeros buffered
FormatR8_fill_skip_keeps_zeros(s, buf, i, k, n) ==
    IF i > Len(buf) THEN [s |-> s, n |-> n, buf |-> buf]
    ELSE IF k = 0 /\ s.buffered_0s >= 8
    THEN FormatR8_fill([s EXCEPT !.position = @ + 8], [buf EXCEPT ![i] = 0], i + 1, 0, n + 8)
    ELSE FormatR8_fill_buffered(
             IF s.buffered_0s = 0 /\ s.buffered_1s = 0 /\ ~s.have_seen_terminal_1
             THEN FormatR8_assert_maybe_buffer_data(s) ELSE s,
             IF k = 0 THEN [buf EXCEPT ![i] = 0] ELSE buf, i, k, n)

FormatR8_fill(s, buf, i, k, n) ==
    IF i > Len(buf) THEN [s |-> s, n |-> n, buf |-> buf]
    ELSE IF k = 0 /\ s.buffered_0s >= 8
    THEN FormatR8_fill([s EXCEPT !.position = @ + 8, !.buffered_0s = @ - 8],
                       [buf EXCEPT ![i] = 0], i + 1, 0, n + 8)
    ELSE FormatR8_fill_buffered(
             IF s.buffered_0s = 0 /\ s.buffered_1s = 0 /\ ~s.have_seen_terminal_1
             THEN FormatR8_assert_maybe_buffer_data(s) ELSE s,
             IF k = 0 THEN [buf EXCEPT ![i] = 0] ELSE buf, i, k, n)

FormatR8_read_bits_into_bytes(s, buf) == FormatR8_fill(s, buf, 1, 0, 0)

(***************************************************************************)
(* DETS format                                                             *)
(***************************************************************************)
FormatDets_read_bit(s) ==
    IF s.position_in_buffer >= m + d + l THEN Throw(s, "invalid_argument", FALSE)
    ELSE Ret([s EXCEPT !.position_in_buffer = @ + 1], s.buffer[s.position_in_buffer + 1])

\* while (c == ' ') c = getc(in);
RECURSIVE FormatDets_skip_spaces(_, _)
FormatDets_skip_spaces(s, c) ==
    IF c = SPACE THEN FormatDets_skip_spaces(Adv(s), Peek(s)) ELSE [s |-> s, c |-> c]

\* the while (true) loop of start_record
RECURSIVE FormatDets_parse_line(_, _)
\* faulty variant: a token is taken whether or not a space came before it
FormatDets_parse_line_no_spacing(s, c0) ==
    LET sk == FormatDets_skip_spaces(s, c0)
        c == sk.c
    IN  IF c = NL \/ c = EOF THEN Ret(sk.s, TRUE)
        ELSE IF c \notin {CHM, CHD, CHL} THEN Throw(sk.s, "invalid_argument", FALSE)
        ELSE LET offset == IF c = CHM THEN 0 ELSE IF c = CHD THEN m ELSE m + d
                 size == IF c = CHM THEN m ELSE IF c = CHD THEN d ELSE l
                 r == read_uint64(sk.s, c, FALSE)
             IN  IF ~Ok(r.s) THEN Ret(r.s, FALSE)
                 ELSE IF ~r.ok THEN Throw(r.s, "invalid_argument", FALSE)
                 ELSE IF r.value >= size THEN Throw(r.s, "invalid_argument", FALSE)
                 ELSE FormatDets_parse_line(
                          [r.s EXCEPT !.buffer[offset + r.value + 1] = ~@], r.next)

FormatDets_parse_line(s, c0) ==
    LET had_spacing == c0 = SPACE
        sk == FormatDets_skip_spaces(s, c0)
        c == sk.c
    IN  IF c = NL \/ c = EOF THEN Ret(sk.s, TRUE)
        ELSE IF ~had_spacing THEN Throw(sk.s, "invalid_argument", FALSE)
        ELSE IF c \notin {CHM, CHD, CHL} THEN Throw(sk.s, "invalid_argument", FALSE)
        ELSE LET offset == IF c = CHM THEN 0 ELSE IF c = CHD THEN m ELSE m + d
                 size == IF c = CHM THEN m ELSE IF c = CHD THEN d ELSE l
                 r == read_uint64(sk.s, c, FALSE)
             IN  IF ~Ok(r.s) THEN Ret(r.s, FALSE)
                 ELSE IF ~r.ok THEN Throw(r.s, "invalid_argument", FALSE)
                 ELSE IF r.value >= size THEN Throw(r.s, "invalid_argument", FALSE)
                 ELSE FormatDets_parse_line(
                          [r.s EXCEPT !.buffer[offset + r.value + 1] = ~@], r.next)

FormatDets_start_record(s) ==
    LET k == maybe_consume_keyword(s, KW_SHOT)
    IN  IF ~Ok(k.s) THEN Ret(k.s, FALSE)
        ELSE IF ~k.found THEN Ret(k.s, FALSE)
        ELSE FormatDets_parse_line(
                 [k.s EXCEPT !.buffer = ZeroBits(Len(@)), !.position_in_buffer = 0],
                 k.next)

FormatDets_next_record(s) == FormatDets_start_record(s)

FormatDets_is_end_of_record(s) == Ret(s, s.position_in_buffer = m + d + l)

\* faulty variant: past the D section the label is D whenever d > 0
FormatDets_current_result_type_d_first(s) ==
    IF s.position_in_buffer < m /\ m # 0 THEN "M"
    ELSE IF s.position_in_buffer < m + d /\ d # 0 THEN "D"
    ELSE IF d # 0 THEN "D"
    ELSE IF l # 0 THEN "L"
    ELSE "M"

\* faulty variant: the label of the terminus is the default one
FormatDets_current_result_type_terminus_default(s) ==
    IF s.position_in_buffer < m THEN "M"
    ELSE IF s.position_in_buffer < m + d THEN "D"
    ELSE IF s.position_in_buffer < m + d + l THEN "L"
    ELSE "M"

FormatDets_current_result_type(s) ==
    IF s.position_in_buffer < m /\ m # 0 THEN "M"
    ELSE IF s.position_in_buffer < m + d /\ d # 0 THEN "D"
    ELSE IF l # 0 THEN "L"
    ELSE IF d # 0 THEN "D"
    ELSE "M"

(***************************************************************************)
(* Virtual dispatch on the variant made by the factory                     *)
(***************************************************************************)
read_bit(s) ==
    CASE fmt = "01" -> Format01_read_bit(s)
      [] fmt = "B8" -> FormatB8_read_bit(s)
      [] fmt = "HITS" -> FormatHits_read_bit(s)
      [] fmt = "R8" -> FormatR8_read_bit(s)
      [] fmt = "DETS" -> FormatDets_read_bit(s)

start_record(s) ==
    CASE fmt = "01" -> Format01_start_record(s)
      [] fmt = "B8" -> FormatB8_start_record(s)
      [] fmt = "HITS" -> FormatHits_start_record(s)
      [] fmt = "R8" -> FormatR8_start_record(s)
      [] fmt = "DETS" -> FormatDets_start_record(s)

next_record(s) ==
    CASE fmt = "01" -> Format01_next_record(s)
      [] fmt = "B8" -> FormatB8_next_record(s)
      [] fmt = "HITS" -> FormatHits_next_record(s)
      [] fmt = "R8" -> FormatR8_next_record(s)
      [] fmt = "DETS" -> FormatDets_next_record(s)

is_end_of_record(s) ==
    CASE fmt = "01" -> Format01_is_end_of_record(s)
      [] fmt = "B8" -> FormatB8_is_end_of_record(s)
      [] fmt = "HITS" -> FormatHits_is_end_of_record(s)
      [] fmt = "R8" -> FormatR8_is_end_of_record(s)
      [] fmt = "DETS" -> FormatDets_is_end_of_record(s)

\* MeasureRecordReader::current_result_type is 'M' unless overridden
current_result_type(s) ==
    IF fmt = "DETS" THEN FormatDets_current_result_type(s) ELSE "M"

\* the position field a variant counts delivered bits in
Position(s) == IF fmt \in {"HITS", "DETS"} THEN s.position_in_buffer ELSE s.position

(***************************************************************************)
(* MeasureRecordReader::read_bits_into_bytes, the default                  *)
(***************************************************************************)
\* the loops of read_bits_into_bytes: about to read bit k of byte i, n bits
\* delivered, result_type as sampled at entry
RECURSIVE default_fill(_, _, _, _, _, _)

\* faulty variant: the loop goes on when the result type changes
default_fill_end_any_type(e, b1, i, k, n, result_type) ==
    IF ~Ok(e.s) THEN [s |-> e.s, n |-> n + 1, buf |-> b1]
    ELSE IF e.ret THEN [s |-> e.s, n |-> n + 1, buf |-> b1]
    ELSE IF k = 7 THEN default_fill(e.s, b1, i + 1, 0, n + 1, result_type)
    ELSE default_fill(e.s, b1, i, k + 1, n + 1, result_type)

\* after is_end_of_record() (e) that follows the read of bit k
default_fill_end(e, b1, i, k, n, result_type) ==
    IF ~Ok(e.s) THEN [s |-> e.s, n |-> n + 1, buf |-> b1]
    ELSE IF e.ret \/ current_result_type(e.s) # result_type
    THEN [s |-> e.s, n |-> n + 1, buf |-> b1]
    ELSE IF k = 7 THEN default_fill(e.s, b1, i + 1, 0, n + 1, result_type)
    ELSE default_fill(e.s, b1, i, k + 1, n + 1, result_type)

\* after read_bit() (r): b |= uint8_t(bit) << k; ++n;
default_fill_bit(r, b0, i, k, n, result_type) ==
    IF ~Ok(r.s) THEN [s |-> r.s, n |-> n, buf |-> b0]
    ELSE default_fill_end(is_end_of_record(r.s),
                          [b0 EXCEPT ![i] = @ + (IF r.ret THEN Pow2(k) ELSE 0)],
                          i, k, n, result_type)

default_fill(s, buf, i, k, n, result_type) ==
    IF i > Len(buf) THEN [s |-> s, n |-> n, buf |-> buf]
    ELSE default_fill_bit(read_bit(s), IF k = 0 THEN [buf EXCEPT ![i] = 0] ELSE buf,
                          i, k, n, result_type)

\* after the is_end_of_record() (e) at entry
default_read_bits_from(e, buf) ==
    IF ~Ok(e.s) THEN [s |-> e.s, n |-> 0, buf |-> buf]
    ELSE IF e.ret THEN [s |-> e.s, n |-> 0, buf |-> buf]
    ELSE default_fill(e.s, buf, 1, 0, 0, current_result_type(e.s))

default_read_bits_into_bytes(s, buf) == default_read_bits_from(is_end_of_record(s), buf)

FormatB8_read_bits_into_bytes(s, buf) ==
    IF s.position >= m THEN [s |-> s, n |-> 0, buf |-> buf]
    ELSE IF s.bits_available > 0 THEN default_read_bits_into_bytes(s, buf)
    ELSE FormatB8_block_read(s, buf)

read_bits_into_bytes(s, buf) ==
    CASE fmt = "B8" -> FormatB8_read_bits_into_bytes(s, buf)
      [] fmt = "R8" -> FormatR8_read_bits_into_bytes(s, buf)
      [] OTHER -> default_read_bits_into_bytes(s, buf)

(***************************************************************************)
(* simd_bit_table, as the bulk reader sees it: rows of bytes, both sizes   *)
(* padded to whole SIMD words                                              *)
(***************************************************************************)
SimdWordBytes == 2
SimdWordBits == 8 * SimdWordBytes

PadBits(n) == ((n + SimdWordBits - 1) \div SimdWordBits) * SimdWordBits

\* simd_bit_table(min_bits_major, min_bits_minor) with every byte equal to fill
NewTable(min_bits_major, min_bits_minor, fill) ==
    [r \in 1..PadBits(min_bits_major) |->
        [c \in 1..(PadBits(min_bits_minor) \div 8) |-> fill]]

num_major_bits_padded(tbl) == Len(tbl)
num_minor_bits_padded(tbl) == IF Len(tbl) = 0 THEN 0 ELSE 8 * Len(tbl[1])

\* bit c of row r, both from 0
TableBit(tbl, r, c) == (tbl[r + 1][(c \div 8) + 1] \div Pow2(c % 8)) % 2

RECURSIVE PackByte(_, _, _, _)
PackByte(tbl, c, r0, k) ==
    IF k = 8 THEN 0 ELSE TableBit(tbl, r0 + k, c) * Pow2(k) + PackByte(tbl, c, r0, k + 1)

\* buf.transpose_into(out): out[i][j] = buf[j][i]
transpose_into(tbl, out) ==
    [r \in 1..Len(out) |->
        [c \in 1..Len(out[r]) |-> PackByte(tbl, r - 1, 8 * (c - 1), 0)]]

(***************************************************************************)
(* MeasureRecordReader::read_records_into                                  *)
(***************************************************************************)
\* the while loop of the row-major branch
RECURSIVE read_records_loop(_, _, _, _)

\* faulty variant: a record that did not end with its row is counted like any other
read_records_check_unchecked(e, tbl1, rec, max_shots) ==
    IF ~Ok(e.s) THEN [s |-> e.s, n |-> rec, tbl |-> tbl1]
    ELSE read_records_loop(e.s, tbl1, rec + 1, max_shots)

\* after is_end_of_record() (e) on the row just filled
read_records_check(e, tbl1, rec, max_shots) ==
    IF ~Ok(e.s) THEN [s |-> e.s, n |-> rec, tbl |-> tbl1]
    ELSE IF ~e.ret
    THEN [s |-> [e.s EXCEPT !.err = "invalid_argument"], n |-> rec, tbl |-> tbl1]
    ELSE read_records_loop(e.s, tbl1, rec + 1, max_shots)

\* after read_bits_into_bytes (rb) over the whole of row rec
read_records_row(rb, tbl, rec, max_shots) ==
    IF ~Ok(rb.s) THEN [s |-> rb.s, n |-> rec, tbl |-> [tbl EXCEPT ![rec + 1] = rb.buf]]
    ELSE read_records_check(is_end_of_record(rb.s), [tbl EXCEPT ![rec + 1] = rb.buf],
                            rec, max_shots)

\* after start_record() (st)
read_records_started(st, tbl, rec, max_shots) ==
    IF ~Ok(st.s) \/ ~st.ret THEN [s |-> st.s, n |-> rec, tbl |-> tbl]
    ELSE read_records_row(read_bits_into_bytes(st.s, tbl[rec + 1]), tbl, rec, max_shots)

read_records_loop(s, tbl, rec, max_shots) ==
    IF rec >= max_shots THEN [s |-> s, n |-> rec, tbl |-> tbl]
    ELSE read_records_started(start_record(s), tbl, rec, max_shots)

\* faulty variant: the scratch table is never copied into the caller's table
read_records_transposed_dropped(r, out) == [s |-> r.s, n |-> r.n, tbl |-> out]

\* buf.transpose_into(out); return r; (an exception leaves out as it was)
read_records_transposed(r, out) ==
    IF Ok(r.s) THEN [s |-> r.s, n |-> r.n, tbl |-> transpose_into(r.tbl, out)]
    ELSE [s |-> r.s, n |-> r.n, tbl |-> out]

\* the row-major branch
read_records_major(s, out, max_shots) ==
    read_records_loop(s, out, 0, Min(max_shots, num_major_bits_padded(out)))

read_records_into(s, out, major_index_is_shot_index, max_shots) ==
    IF ~major_index_is_shot_index
    THEN read_records_transposed(
             read_records_major(
                 s, NewTable(num_minor_bits_padded(out), num_major_bits_padded(out), 0),
                 max_shots),
             out)
    ELSE read_records_major(s, out, max_shots)

(***************************************************************************)
(* MeasureRecordReader::make and the constructors                          *)
(***************************************************************************)
NoReader ==
    [off |-> 0, payload |-> 0, position |-> 0, bits_available |-> 0,
     buffered_0s |-> 0, buffered_1s |-> 0, have_seen_terminal_1 |-> FALSE,
     buffer |-> << >>, position_in_buffer |-> 0, err |-> "none"]

NewFormat01(bits_per_record) ==
    [NoReader EXCEPT !.payload = NL, !.position = bits_per_record]

NewFormatB8(bits_per_record) ==
    [NoReader EXCEPT !.payload = 0, !.bits_available = 0, !.position = bits_per_record]

NewFormatHits(bits_per_record) ==
    [NoReader EXCEPT !.buffer = [i \in 1..bits_per_record |-> FALSE],
                     !.position_in_buffer = bits_per_record]

NewFormatR8(bits_per_record) == NoReader

NewFormatDets(nm, nd, nl) ==
    [NoReader EXCEPT !.buffer = [i \in 1..(nm + nd + nl) |-> FALSE],
                     !.position_in_buffer = nm + nd + nl]

\* faulty variant: the count of logical observables is not looked at
make_observables_unchecked(input_format, nm, nd, nl) ==
    IF input_format # "DETS" /\ nd # 0 THEN [NoReader EXCEPT !.err = "invalid_argument"]
    ELSE CASE input_format = "01" -> NewFormat01(nm)
           [] input_format = "B8" -> NewFormatB8(nm)
           [] input_format = "DETS" -> NewFormatDets(nm, nd, nl)
           [] input_format = "HITS" -> NewFormatHits(nm)
           [] input_format = "PTB64" -> [NoReader EXCEPT !.err = "invalid_argument"]
           [] input_format = "R8" -> NewFormatR8(nm)
           [] OTHER -> [NoReader EXCEPT !.err = "invalid_argument"]

make(input_format, nm, nd, nl) ==
    IF input_format # "DETS" /\ nd # 0 THEN [NoReader EXCEPT !.err = "invalid_argument"]
    ELSE IF input_format # "DETS" /\ nl # 0 THEN [NoReader EXCEPT !.err = "invalid_argument"]
    ELSE CASE input_format = "01" -> NewFormat01(nm)
           [] input_format = "B8" -> NewFormatB8(nm)
           [] input_format = "DETS" -> NewFormatDets(nm, nd, nl)
           [] input_format = "HITS" -> NewFormatHits(nm)
           [] input_format = "PTB64" -> [NoReader EXCEPT !.err = "invalid_argument"]
           [] input_format = "R8" -> NewFormatR8(nm)
           [] OTHER -> [NoReader EXCEPT !.err = "invalid_argument"]

(***************************************************************************)
(* The writer's framing of one record, per format (spec sections 4.3-4.7)  *)
(***************************************************************************)
RECURSIVE Concat(_)
Concat(ss) == IF ss = << >> THEN << >> ELSE Head(ss) \o Concat(Tail(ss))

RECURSIVE Decimal(_)
Decimal(n) == IF n < 10 THEN <<CH0 + n>> ELSE Decimal(n \div 10) \o <<CH0 + (n % 10)>>

Encode01(rec) == [i \in 1..Len(rec) |-> IF rec[i] THEN CH1 ELSE CH0] \o <<NL>>

\* bit k of byte j is record bit 8j + k; the unused high bits are zero
RECURSIVE B8Byte(_, _, _)
B8Byte(rec, j, k) ==
    IF k = 8 THEN 0
    ELSE (IF 8 * j + k + 1 <= Len(rec) /\ rec[8 * j + k + 1] THEN Pow2(k) ELSE 0)
         + B8Byte(rec, j, k + 1)

EncodeB8(rec) == [j \in 1..((Len(rec) + 7) \div 8) |-> B8Byte(rec, j - 1, 0)]

\* the indices (from 0) of the set bits from position i on, each led by sep
RECURSIVE HitTokens(_, _, _, _)
HitTokens(rec, i, lead, first) ==
    IF i > Len(rec) THEN << >>
    ELSE IF rec[i]
    THEN (IF first THEN << >> ELSE lead) \o Decimal(i - 1) \o HitTokens(rec, i + 1, lead, FALSE)
    ELSE HitTokens(rec, i + 1, lead, first)

EncodeHits(rec) == HitTokens(rec, 1, <<COMMA>>, TRUE) \o <<NL>>

\* a run of z zeros before a one: 0xFF for every 255 of them, then the rest
RECURSIVE R8Run(_)
R8Run(z) == IF z >= CONT THEN <<CONT>> \o R8Run(z - CONT) ELSE <<z>>

\* from bit i on with z zeros pending; the fake one past the end closes the record
RECURSIVE R8Runs(_, _, _)
R8Runs(rec, i, z) ==
    IF i > Len(rec) THEN R8Run(z)
    ELSE IF rec[i] THEN R8Run(z) \o R8Runs(rec, i + 1, 0)
    ELSE R8Runs(rec, i + 1, z + 1)

EncodeR8(rec) == R8Runs(rec, 1, 0)

\* " M<i>", " D<i>" or " L<i>" for every set bit of the section
RECURSIVE DetsTokens(_, _, _, _, _)
DetsTokens(rec, i, nm, nd, nl) ==
    IF i > Len(rec) THEN << >>
    ELSE IF rec[i]
    THEN <<SPACE>>
         \o (IF i <= nm THEN <<CHM>> \o Decimal(i - 1)
             ELSE IF i <= nm + nd THEN <<CHD>> \o Decimal(i - 1 - nm)
             ELSE <<CHL>> \o Decimal(i - 1 - nm - nd))
         \o DetsTokens(rec, i + 1, nm, nd, nl)
    ELSE DetsTokens(rec, i + 1, nm, nd, nl)

EncodeDets(rec, nm, nd, nl) == KW_SHOT \o DetsTokens(rec, 1, nm, nd, nl) \o <<NL>>

EncodeRecord(f, nm, nd, nl, rec) ==
    CASE f = "01" -> Encode01(rec)
      [] f = "B8" -> EncodeB8(rec)
      [] f = "HITS" -> EncodeHits(rec)
      [] f = "R8" -> EncodeR8(rec)
      [] f = "DETS" -> EncodeDets(rec, nm, nd, nl)

Encode(f, nm, nd, nl, recs) ==
    Concat([i \in 1..Len(recs) |-> EncodeRecord(f, nm, nd, nl, recs[i])])

(***************************************************************************)
(* Bounds and the inputs the reader is run on                              *)
(***************************************************************************)
MaxM == 3
MaxRecs == 2
MaxStarts == 4
MaxOut == 2

Formats == {"01", "B8", "HITS", "R8", "DETS"}

BitVecs(w) == [1..w -> BOOLEAN]

\* the records of a stream of two or more: all zero, all one, alternating
Palette(w) ==
    {[i \in 1..w |-> FALSE], [i \in 1..w |-> TRUE], [i \in 1..w |-> i % 2 = 0]}

RecordSeqs(w) ==
    {<< >>} \cup {<<r>> : r \in BitVecs(w)}
            \cup UNION {[1..k -> Palette(w)] : k \in 2..MaxRecs}

Shapes(f) ==
    IF f = "DETS"
    THEN {sh \in [m : 0..MaxM, d : 0..MaxM, l : 0..MaxM] : sh.m + sh.d + sh.l <= MaxM}
    ELSE [m : 0..MaxM, d : {0}, l : {0}]

Input(f, nm, nd, nl, bytes, recs, isWf) ==
    [fmt |-> f, m |-> nm, d |-> nd, l |-> nl, bytes |-> bytes, truth |-> recs, wf |-> isWf]

\* what the writer produces for every shape and record sequence within the bounds
WriterInputs ==
    UNION {UNION {{Input(f, sh.m, sh.d, sh.l, Encode(f, sh.m, sh.d, sh.l, recs), recs, TRUE) :
                      recs \in RecordSeqs(sh.m + sh.d + sh.l)} :
                  sh \in Shapes(f)} :
           f \in Formats}

Bits(s) == [i \in 1..Len(s) |-> s[i] = 1]

\* the streams of the end-to-end scenarios, with the records they are read as
ExampleInputs ==
    {Input("B8", 10, 0, 0, <<42, 3, 255, 0>>,
           <<Bits(<<0, 1, 0, 1, 0, 1, 0, 0, 1, 1>>), Bits(<<1, 1, 1, 1, 1, 1, 1, 1, 0, 0>>)>>, TRUE),
     Input("R8", 5, 0, 0, <<2, 1, 0>>, <<Bits(<<0, 0, 1, 0, 1>>)>>, TRUE),
     Input("R8", 5, 0, 0, <<5>>, <<Bits(<<0, 0, 0, 0, 0>>)>>, TRUE),
     Input("R8", 5, 0, 0, <<2, 1, 1, 0>>, << >>, FALSE),
     Input("R8", 5, 0, 0, <<5, 0>>, << >>, FALSE),
     Input("R8", 5, 0, 0, <<255>>, << >>, FALSE)}

\* 01 lines whose length is not m, each followed by a line of the right length
Line01(len) == [i \in 1..len |-> IF i % 2 = 0 THEN CH1 ELSE CH0]

BadLength01Inputs ==
    UNION {{Input("01", nm, 0, 0, Line01(len) \o <<NL>> \o Line01(nm) \o <<NL>>, << >>, FALSE) :
               len \in (0..(nm + 2)) \ {nm}} :
           nm \in 0..MaxM}

\* B8 records whose last byte carries ones in its unused high bits
DirtyB8(rec) ==
    LET e == EncodeB8(rec)
    IN  [e EXCEPT ![Len(e)] = @ + (256 - Pow2(Len(rec) % 8))]

DirtyB8Inputs ==
    {Input("B8", 10, 0, 0, <<42, 255>>, <<Bits(<<0, 1, 0, 1, 0, 1, 0, 0, 1, 1>>)>>, FALSE)}
    \cup UNION {{Input("B8", nm, 0, 0, Concat([i \in 1..Len(recs) |-> DirtyB8(recs[i])]),
                       recs, FALSE) :
                     recs \in {<<r>> : r \in BitVecs(nm)} \cup [1..2 -> Palette(nm)]} :
                 nm \in 1..MaxM}

\* B8 streams that end inside a record of two bytes
TruncatedB8Inputs ==
    {Input("B8", 10, 0, 0, <<42>>, << >>, FALSE),
     Input("B8", 10, 0, 0, <<42, 3, 255>>, << >>, FALSE)}

\* HITS and DETS lines written from a list of tokens: an index, or a section
\* prefix and an index
RECURSIVE HitsList(_)
HitsList(ix) ==
    IF ix = << >> THEN << >>
    ELSE Decimal(Head(ix)) \o (IF Len(ix) > 1 THEN <<COMMA>> ELSE << >>) \o HitsList(Tail(ix))

HitsLine(ix) == HitsList(ix) \o <<NL>>

DetsTok(p, n) == [p |-> p, n |-> n]

RECURSIVE DetsList(_)
DetsList(toks) ==
    IF toks = << >> THEN << >>
    ELSE <<SPACE, Head(toks).p>> \o Decimal(Head(toks).n) \o DetsList(Tail(toks))

DetsLine(toks) == KW_SHOT \o DetsList(toks) \o <<NL>>

\* the token of bit pos (from 0) of a DETS record, and the bit of a token
DetsTokAt(pos, nm, nd) ==
    IF pos < nm THEN DetsTok(CHM, pos)
    ELSE IF pos < nm + nd THEN DetsTok(CHD, pos - nm)
    ELSE DetsTok(CHL, pos - nm - nd)

\* the record of width w whose bit i is the parity of the occurrences of i in pos
Toggled(w, pos) ==
    [i \in 1..w |-> Cardinality({j \in 1..Len(pos) : pos[j] = i - 1}) % 2 = 1]

\* lists of bit positions that repeat a position or are not in ascending order
ToggleLists(w) ==
    {<<a, b>> : a \in 0..(w - 1), b \in 0..(w - 1)} \cup {<<a, a, a>> : a \in 0..(w - 1)}

\* a first line from such a list, then the line of the single index 0
ToggleInputs ==
    UNION {{Input("HITS", nm, 0, 0, HitsLine(pos) \o HitsLine(<<0>>),
                  <<Toggled(nm, pos), Toggled(nm, <<0>>)>>, FALSE) :
                pos \in ToggleLists(nm)} :
            nm \in 1..MaxM}
    \cup UNION {{Input("DETS", sh.m, sh.d, sh.l,
                       DetsLine([j \in 1..Len(pos) |-> DetsTokAt(pos[j], sh.m, sh.d)])
                           \o DetsLine(<<DetsTokAt(0, sh.m, sh.d)>>),
                       <<Toggled(MaxM, pos), Toggled(MaxM, <<0>>)>>, FALSE) :
                     pos \in ToggleLists(MaxM)} :
                 sh \in {s \in Shapes("DETS") : s.m + s.d + s.l = MaxM}}

\* index values at or past the width: the width, the next one, one of two digits,
\* and two that do not fit the unsigned word
RangeValues(w) == {w, w + 1, 10, 260, 300}

RangeInputs ==
    UNION {{Input("HITS", nm, 0, 0, HitsLine(ix), << >>, FALSE) :
                ix \in {<<v>> : v \in RangeValues(nm)}
                          \cup {<<0, v>> : v \in IF nm > 0 THEN {nm} ELSE {}}} :
            nm \in 0..MaxM}
    \cup UNION {{Input("DETS", sh.m, sh.d, sh.l, DetsLine(toks), << >>, FALSE) :
                     toks \in {<<DetsTok(CHM, v)>> : v \in RangeValues(sh.m)}
                                 \cup {<<DetsTok(CHD, sh.d)>>, <<DetsTok(CHL, sh.l)>>}
                                 \cup {<<DetsTok(CHM, 0), DetsTok(CHD, sh.d)>> :
                                           v \in IF sh.m > 0 THEN {0} ELSE {}}} :
                 sh \in Shapes("DETS")}

\* DETS lines for the shape (1, 1, 1): eleven that break the syntax of a line
\* (no keyword, a wrong one, a cut one, a token without its space, an unknown
\* prefix, a prefix without digits), the empty stream, and six that keep it
SyntaxStreams ==
    {<<CHM, CH0, NL>>,
     <<NL>>,
     <<115, 104, 117, 116, SPACE, CHM, CH0, NL>>,
     <<115, 104, 111>>,
     <<SPACE>> \o KW_SHOT \o <<NL>>,
     KW_SHOT \o <<CHM, CH0, NL>>,
     KW_SHOT \o <<SPACE, CHM, CH0, CHD, CH0, NL>>,
     KW_SHOT \o <<SPACE, CHM, CH0, COMMA, CHD, CH0, NL>>,
     KW_SHOT \o <<SPACE, 88, CH0, NL>>,
     KW_SHOT \o <<SPACE, CHM, NL>>,
     KW_SHOT \o <<SPACE, CHM, SPACE, CH0, NL>>,
     << >>,
     KW_SHOT,
     KW_SHOT \o <<NL>>,
     KW_SHOT \o <<SPACE, CHM, CH0>>,
     KW_SHOT \o <<SPACE, SPACE, CHM, CH0, NL>>,
     KW_SHOT \o <<SPACE, CHM, CH0, SPACE, NL>>,
     KW_SHOT \o <<SPACE, CHM, CH0, SPACE, SPACE, CHL, CH0, NL>>}

SyntaxInputs == {Input("DETS", 1, 1, 1, b, << >>, FALSE) : b \in SyntaxStreams}

Tagged(k, S) == {[kind |-> k, inp |-> i] : i \in S}

Inputs ==
    Tagged("writer", WriterInputs) \cup Tagged("example", ExampleInputs)
        \cup Tagged("bad_length", BadLength01Inputs)
        \cup Tagged("dirty_b8", DirtyB8Inputs)
        \cup Tagged("truncated_b8", TruncatedB8Inputs)
        \cup Tagged("toggle", ToggleInputs)
        \cup Tagged("range", RangeInputs)
        \cup Tagged("syntax", SyntaxInputs)

(***************************************************************************)
(* The state machine: a reader made by the factory over one input, and a   *)
(* caller that may invoke any contract operation at any time.  A call that *)
(* threw or aborted ends the run of that reader.                           *)
(***************************************************************************)
FillBytes == {255}

\* is_end_of_record returns true, without throwing
ReturnedTrue(r) == Ok(r.s) /\ r.ret
AtEnd(s) == ReturnedTrue(is_end_of_record(s))

\* a record is open: the last start_record/next_record call returned true
RecordOpen == nstart > 0 /\ ri = nstart

InitWith(k, inp) ==
        /\ kind = k
        /\ fmt = inp.fmt
        /\ m = inp.m
        /\ d = inp.d
        /\ l = inp.l
        /\ ndebug \in (IF inp.fmt = "R8" THEN BOOLEAN ELSE {FALSE})
        /\ in_bytes = inp.bytes
        /\ truth = inp.truth
        /\ wf = inp.wf
        /\ rd = make(inp.fmt, inp.m, inp.d, inp.l)
        /\ op = "make"
        /\ retb = FALSE
        /\ retn = 0
        /\ retc = ""
        /\ lex_next = 0
        /\ outbuf = << >>
        /\ pre = 0
        /\ ri = 0
        /\ nstart = 0
        /\ drained = TRUE
        /\ was_end = FALSE
        /\ table = << >>
        /\ table0 = << >>
        /\ shots = 0

Init == \E t \in Inputs : InitWith(t.kind, t.inp)

Config == <<fmt, m, d, l, ndebug, in_bytes, kind, truth, wf>>
TableVars == <<table, table0, shots>>

\* the operation returns no char and is no lexer helper
NoChar == retc' = "" /\ UNCHANGED lex_next

\* bookkeeping shared by the two operations that open a record
Opened(name, r) ==
    /\ rd' = r.s
    /\ op' = name
    /\ retb' = r.ret
    /\ pre' = Position(rd)
    /\ nstart' = nstart + 1
    /\ ri' = IF Ok(r.s) /\ r.ret THEN ri + 1 ELSE ri
    /\ drained' = (drained /\ IF RecordOpen THEN AtEnd(rd) ELSE name = "start_record")
    /\ was_end' = AtEnd(rd)
    /\ retn' = 0
    /\ outbuf' = << >>
    /\ UNCHANGED <<Config, TableVars>>
    /\ NoChar

StartRecord ==
    /\ Ok(rd)
    /\ nstart < MaxStarts
    /\ Opened("start_record", start_record(rd))

NextRecord ==
    /\ Ok(rd)
    /\ nstart < MaxStarts
    /\ Opened("next_record", next_record(rd))

ReadBit ==
    /\ Ok(rd)
    /\ LET r == read_bit(rd)
       IN  /\ rd' = r.s
           /\ op' = "read_bit"
           /\ retb' = r.ret
           /\ pre' = Position(rd)
    /\ retn' = 0
    /\ outbuf' = << >>
    /\ was_end' = AtEnd(rd)
    /\ drained' = (drained /\ RecordOpen)
    /\ UNCHANGED <<ri, nstart, Config, TableVars>>
    /\ NoChar

ReadBitsIntoBytes ==
    /\ Ok(rd)
    /\ \E len \in 1..MaxOut, fill \in FillBytes :
           LET r == read_bits_into_bytes(rd, [i \in 1..len |-> fill])
           IN  /\ rd' = r.s
               /\ op' = "read_bits_into_bytes"
               /\ retn' = r.n
               /\ outbuf' = r.buf
               /\ pre' = Position(rd)
    /\ retb' = FALSE
    /\ was_end' = AtEnd(rd)
    /\ drained' = (drained /\ RecordOpen)
    /\ UNCHANGED <<ri, nstart, Config, TableVars>>
    /\ NoChar

IsEndOfRecord ==
    /\ Ok(rd)
    /\ LET r == is_end_of_record(rd)
       IN  /\ rd' = r.s
           /\ op' = "is_end_of_record"
           /\ retb' = r.ret
           /\ pre' = Position(rd)
    /\ retn' = 0
    /\ outbuf' = << >>
    /\ was_end' = AtEnd(rd)
    /\ UNCHANGED <<ri, nstart, drained, Config, TableVars>>
    /\ NoChar

CurrentResultType ==
    /\ Ok(rd)
    /\ op' = "current_result_type"
    /\ retc' = current_result_type(rd)
    /\ pre' = Position(rd)
    /\ was_end' = AtEnd(rd)
    /\ retb' = FALSE
    /\ retn' = 0
    /\ outbuf' = << >>
    /\ UNCHANGED <<rd, ri, nstart, drained, lex_next, Config, TableVars>>

Next ==
    \/ StartRecord
    \/ NextRecord
    \/ ReadBit
    \/ ReadBitsIntoBytes
    \/ IsEndOfRecord
    \/ CurrentResultType

Spec == Init /\ [][Next]_vars

(***************************************************************************)
(* The bulk reader run on a freshly made reader                            *)
(***************************************************************************)
\* the caller's table: MaxRecs shots of Width bits or of none, shots along the major
\* axis or along the minor one.  A table is a sequence of rows, so one without rows
\* has no column count: a column-major table is given at least one row
ReadRecordsInto ==
    /\ Ok(rd)
    /\ op = "make"
    /\ \E bits \in {0, Width}, fill \in FillBytes, major \in BOOLEAN,
          max_shots \in 0..(MaxRecs + 1) :
           /\ major \/ (max_shots >= MaxRecs /\ bits > 0)
           /\ LET out == IF major THEN NewTable(MaxRecs, bits, fill)
                         ELSE NewTable(bits, MaxRecs, fill)
                  r == read_records_into(rd, out, major, max_shots)
              IN  /\ rd' = r.s
                  /\ op' = IF major THEN "read_records_into" ELSE "read_records_into_minor"
                  /\ retn' = r.n
                  /\ table' = r.tbl
                  /\ table0' = out
                  /\ shots' = max_shots
    /\ retb' = FALSE
    /\ outbuf' = << >>
    /\ UNCHANGED <<pre, ri, nstart, drained, was_end, Config>>
    /\ NoChar

NextBulk == ReadRecordsInto

SpecBulk == Init /\ [][NextBulk]_vars

(***************************************************************************)
(* read_uint64 run on a stream of digits: the caller either has read the   *)
(* first byte into next (include_next) or has not                          *)
(***************************************************************************)
MaxDigits == 3

Digits == CH0..CH9

\* one to MaxDigits digits, then a comma or the end of the stream; and a lone comma
DigitStreams ==
    {<<COMMA>>}
    \cup UNION {{ds \o tail : ds \in [1..k -> Digits], tail \in {<< >>, <<COMMA>>}} :
                 k \in 1..MaxDigits}

InitLex ==
    \E b \in DigitStreams : InitWith("digits", Input("HITS", 0, 0, 0, b, << >>, FALSE))

ReadUint64 ==
    /\ Ok(rd)
    /\ op = "make"
    /\ \E include_next \in BOOLEAN :
           LET r == IF include_next THEN read_uint64(Adv(rd), Peek(rd), TRUE)
                    ELSE read_uint64(rd, 0, FALSE)
           IN  /\ rd' = r.s
               /\ op' = "read_uint64"
               /\ retb' = r.ok
               /\ retn' = r.value
               /\ lex_next' = r.next
    /\ retc' = ""
    /\ outbuf' = << >>
    /\ UNCHANGED <<pre, ri, nstart, drained, was_end, Config, TableVars>>

NextLex == ReadUint64

SpecLex == InitLex /\ [][NextLex]_vars

(***************************************************************************)
(* The R8 reader run on arbitrary byte streams, framed correctly or not    *)
(***************************************************************************)
MaxBytes == 3

\* run bytes around the record width, and the continuation byte
R8Bytes(w) == {b \in {0, 1, w - 1, w, CONT} : b >= 0}

\* a width past the eight-zero fast path of read_bits_into_bytes, besides the small ones
R8Widths == (0..MaxM) \cup {10}

R8Inputs ==
    UNION {UNION {{Input("R8", w, 0, 0, b, << >>, FALSE) : b \in [1..k -> R8Bytes(w)]} :
                  k \in 0..MaxBytes} :
           w \in R8Widths}

InitR8 == \E inp \in R8Inputs : InitWith("r8_bytes", inp)

SpecR8 == InitR8 /\ [][Next]_vars

(***************************************************************************)
(* MeasureRecordReader::make called with any tag and any three counts      *)
(***************************************************************************)
\* the SampleFormat values: the five readers, PTB64, and a value outside the enum
SampleFormats == Formats \cup {"PTB64", "UNKNOWN"}

InitMake ==
    /\ kind = "factory"
    /\ fmt \in SampleFormats
    /\ m \in 0..MaxM
    /\ d \in 0..MaxM
    /\ l \in 0..MaxM
    /\ ndebug = FALSE
    /\ in_bytes = << >>
    /\ truth = << >>
    /\ wf = FALSE
    /\ rd = NoReader
    /\ op = "none"
    /\ retb = FALSE
    /\ retn = 0
    /\ retc = ""
    /\ lex_next = 0
    /\ outbuf = << >>
    /\ pre = 0
    /\ ri = 0
    /\ nstart = 0
    /\ drained = TRUE
    /\ was_end = FALSE
    /\ table = << >>
    /\ table0 = << >>
    /\ shots = 0

Make ==
    /\ op = "none"
    /\ rd' = make(fmt, m, d, l)
    /\ op' = "make"
    /\ UNCHANGED <<retb, retn, retc, lex_next, outbuf, pre, ri, nstart, drained, was_end,
                   Config, TableVars>>

NextMake == Make

SpecMake == InitMake /\ [][NextMake]_vars

(***************************************************************************)
(* Vocabulary of the properties                                            *)
(***************************************************************************)
Exceptions == {"out_of_range", "runtime_error", "invalid_argument"}

\* the caller's drain: while (!is_end_of_record()) read_bit();
RECURSIVE Drain(_)
DrainRead(r) == IF Ok(r.s) THEN Drain(r.s) ELSE r.s
DrainFrom(e) == IF ~Ok(e.s) THEN e.s ELSE IF e.ret THEN e.s ELSE DrainRead(read_bit(e.s))
Drain(s) == DrainFrom(is_end_of_record(s))

\* the drain followed by start_record()
StartAfter(s1) == IF Ok(s1) THEN start_record(s1) ELSE Ret(s1, FALSE)
DrainThenStart(s) == StartAfter(Drain(s))

\* two calls leave the caller in the same situation: same outcome, same place in
\* the stream, and the same reader whenever a record was opened
SameOutcome(a, b) ==
    /\ a.s.err = b.s.err
    /\ a.ret = b.ret
    /\ a.s.off = b.s.off
    /\ (a.ret => a.s = b.s)

\* bit i (from 0) of a byte buffer, little-endian inside each byte
BufBit(buf, i) == (buf[(i \div 8) + 1] \div Pow2(i % 8)) % 2 = 1

\* the record being read, when the stream is well formed and the order was kept
InRecord == wf /\ drained /\ RecordOpen /\ ri <= Len(truth)

\* number of bytes of the first line of the stream before its newline
RECURSIVE LineLenFrom(_)
LineLenFrom(i) ==
    IF i > Len(in_bytes) \/ in_bytes[i] = NL THEN 0 ELSE 1 + LineLenFrom(i + 1)
FirstLineLen == LineLenFrom(1)

\* the first record is the one open, entered by start_record as the first call
FirstRecord == drained /\ nstart = 1 /\ ri = 1

(***************************************************************************)
(* C1  Round trip through the bulk reader (row-major): a stream the writer *)
(* produced from k records, read into a table with room for them, is read  *)
(* without error, k is returned and row r holds record r.                  *)
(***************************************************************************)
RowHolds(row, rec) == \A c \in 1..Len(rec) : BufBit(row, c - 1) = rec[c]

C1_BulkRoundTrip ==
    (/\ op = "read_records_into"
     /\ wf
     /\ shots >= Len(truth)
     /\ num_minor_bits_padded(table0) >= Width)
    => /\ Ok(rd)
       /\ retn = Len(truth)
       /\ \A r \in 1..Len(truth) : RowHolds(table[r], truth[r])

(***************************************************************************)
(* C2  On a well-formed stream, after start_record returned true, every    *)
(* read_bit at a position below the record width succeeds, is_end_of_record*)
(* is false before it, and is_end_of_record is true once width bits are    *)
(* read.                                                                   *)
(***************************************************************************)
C2_ExactlyWidthReads ==
    InRecord
    => /\ (op = "read_bit" /\ pre < Width) => (Ok(rd) /\ ~was_end)
       /\ Ok(rd) => /\ Position(rd) <= Width
                    /\ Ok(is_end_of_record(rd).s)
                    /\ is_end_of_record(rd).ret = (Position(rd) = Width)

(***************************************************************************)
(* C3  On a well-formed record, read_bits_into_bytes called after any      *)
(* number of bits were read delivers, in the first n bits of its output,   *)
(* the bits read_bit delivers at those positions (the record's), advances  *)
(* by n, and delivers at least one bit while the record is not at its end, *)
(* so that repeated calls end with is_end_of_record true.                  *)
(***************************************************************************)
C3_BulkSameAsReadBit ==
    (InRecord /\ op = "read_bits_into_bytes")
    => /\ Ok(rd)
       /\ Position(rd) = pre + retn
       /\ retn <= 8 * Len(outbuf)
       /\ pre < Width => retn > 0
       /\ \A i \in 0..(retn - 1) : BufBit(outbuf, i) = truth[ri][pre + i + 1]

(***************************************************************************)
(* C4  On a well-formed stream of k records, each drained before the next  *)
(* start_record call, the n-th start_record call returns true iff n <= k.  *)
(* As claimed (every format and shape), and as amended (not FB8 with       *)
(* m = 0, whose records occupy no bytes).                                  *)
(***************************************************************************)
C4_Original ==
    (wf /\ drained /\ op = "start_record")
    => (Ok(rd) /\ retb = (nstart <= Len(truth)))

C4_FalseExactlyAfterLastRecord ==
    (wf /\ drained /\ op = "start_record" /\ ~(fmt = "B8" /\ m = 0))
    => (Ok(rd) /\ retb = (nstart <= Len(truth)))

C4_Witness ==
    /\ wf /\ drained /\ op = "start_record" /\ Ok(rd)
    /\ Width > 0 /\ Len(truth) = MaxRecs
    /\ nstart = Len(truth) + 1 /\ ~retb

(***************************************************************************)
(* C5  In every reachable state in which is_end_of_record holds, read_bit  *)
(* throws an exception: no bit is returned, no assertion fails, and the    *)
(* position does not move.                                                 *)
(***************************************************************************)
C5_ReadBitAtEndThrows ==
    (op = "read_bit" /\ was_end)
    => (rd.err \in Exceptions /\ Position(rd) = pre /\ Position(rd) <= Width)

C5_Witness ==
    /\ op = "read_bit" /\ was_end /\ rd.err \in Exceptions
    /\ RecordOpen /\ Width > 0

(***************************************************************************)
(* C6  On a well-formed stream, next_record called after j bits of the     *)
(* current record were read (any j) has the outcome of draining the rest   *)
(* of the record and calling start_record: same return value, same place   *)
(* in the stream and the same reader state for the records that follow.    *)
(***************************************************************************)
C6_NextRecordIsDrainThenStart ==
    (InRecord /\ Ok(rd)) => SameOutcome(next_record(rd), DrainThenStart(rd))

C6_Witness ==
    /\ wf /\ op = "next_record" /\ Ok(rd) /\ retb
    /\ nstart = 2 /\ ri = 2
    /\ 0 < pre /\ pre < Width

(***************************************************************************)
(* C7  FR8, m = 5, input {0x02, 0x01, 0x01, 0x00}.  As claimed: the reads  *)
(* of the record succeed and deliver [0,0,1,0,1].  As amended: read_bit    *)
(* delivers [0,0,1], the read of the fourth bit throws, and the record     *)
(* never reaches end-of-record.                                            *)
(***************************************************************************)
C7_Input == fmt = "R8" /\ m = 5 /\ in_bytes = <<2, 1, 1, 0>>

C7_Bits == Bits(<<0, 0, 1, 0, 1>>)

C7_Original ==
    (C7_Input /\ FirstRecord /\ op = "read_bit" /\ pre < 5)
    => (Ok(rd) /\ retb = C7_Bits[pre + 1])

C7_FourthBitThrows ==
    (C7_Input /\ FirstRecord)
    => /\ (op = "read_bit" /\ pre < 3) => (Ok(rd) /\ retb = C7_Bits[pre + 1])
       /\ (op = "read_bit" /\ pre = 3) => rd.err = "invalid_argument"
       /\ op = "read_bits_into_bytes" => rd.err = "invalid_argument"
       /\ Position(rd) <= 3
       /\ ~AtEnd(rd)

C7_Witness ==
    C7_Input /\ FirstRecord /\ op = "read_bit" /\ pre = 3 /\ rd.err = "invalid_argument"

(***************************************************************************)
(* C8  FR8, m = 5, input {0x05, 0x00}.  As claimed: the record of five     *)
(* zeros takes both bytes and the next start_record reports the end of     *)
(* the stream.  As amended: the byte 0x05 alone is the record of five      *)
(* zeros (the reader is one byte into the stream at end-of-record), and    *)
(* the next start_record consumes 0x00 and returns true.                   *)
(***************************************************************************)
C8_Input == fmt = "R8" /\ m = 5 /\ in_bytes = <<5, 0>>

C8_Original ==
    (C8_Input /\ drained /\ op = "start_record" /\ nstart = 2)
    => (Ok(rd) /\ ~retb)

C8_FirstByteIsTheRecord ==
    /\ (C8_Input /\ FirstRecord)
       => /\ Ok(rd) => rd.off = 1
          /\ (op = "read_bit" /\ pre < 5) => (Ok(rd) /\ ~retb)
          /\ (Ok(rd) /\ Position(rd) = 5) => AtEnd(rd)
    /\ (C8_Input /\ drained /\ op = "start_record" /\ nstart = 2)
       => (Ok(rd) /\ retb /\ rd.off = 2)

C8_Witness ==
    C8_Input /\ drained /\ op = "start_record" /\ nstart = 2 /\ retb /\ pre = 5

(***************************************************************************)
(* C9  F01: is_end_of_record never returns a value that disagrees with     *)
(* position >= m, and a line whose length is not m cannot be drained: the  *)
(* drain that consults is_end_of_record throws, so no later record is      *)
(* started after a completed drain.                                        *)
(***************************************************************************)
C9_LengthMismatchThrows ==
    fmt = "01"
    => /\ (op = "is_end_of_record" /\ Ok(rd)) => retb = (rd.position >= m)
       /\ (FirstRecord /\ Ok(rd) /\ FirstLineLen # m) => ~Ok(Drain(rd))
       /\ (FirstRecord /\ was_end /\ op # "start_record" /\ op # "next_record")
          => FirstLineLen = m
       /\ (drained /\ nstart = 2 /\ ri >= 1) => FirstLineLen = m

C9_Witness ==
    /\ fmt = "01" /\ m = 3 /\ Len(in_bytes) >= 3 /\ SubSeq(in_bytes, 1, 3) = <<CH0, CH1, NL>>
    /\ FirstRecord /\ op = "is_end_of_record" /\ pre = 2
    /\ rd.err = "invalid_argument"

(***************************************************************************)
(* C10  F01: next_record throws whenever the line it abandons holds more   *)
(* than m bytes before its newline.                                        *)
(***************************************************************************)
C10_NextRecordRejectsLongLine ==
    (fmt = "01" /\ op = "next_record" /\ nstart = 2 /\ FirstLineLen > m)
    => ~Ok(rd)

(***************************************************************************)
(* C11  FB8, m not a multiple of 8: the unused high bits of a record's     *)
(* last byte are ignored.  Whatever those bits are in the stream, read_bit *)
(* returns the record's bits, and read_bits_into_bytes returns the count   *)
(* and writes the bytes it returns and writes when they are zero: the      *)
(* record's bits from the position on, packed little-endian with zeros     *)
(* above the last bit, the bytes beyond the count left as they were.       *)
(***************************************************************************)
\* the byte holding the bits of rec from bit from (from 0) on, zero above the last
RECURSIVE PackedByte(_, _, _)
PackedByte(rec, from, k) ==
    IF k = 8 THEN 0
    ELSE (IF from + k + 1 <= Len(rec) /\ rec[from + k + 1] THEN Pow2(k) ELSE 0)
         + PackedByte(rec, from, k + 1)

\* a B8 stream that encodes the records of truth, whatever its unused bits are
B8Encoded == fmt = "B8" /\ m % 8 # 0 /\ kind \in {"writer", "example", "dirty_b8"}

C11_UnusedHighBitsIgnored ==
    (B8Encoded /\ drained /\ RecordOpen /\ ri <= Len(truth))
    => /\ (op = "read_bit" /\ pre < m) => (Ok(rd) /\ retb = truth[ri][pre + 1])
       /\ op = "read_bits_into_bytes"
          => /\ Ok(rd)
             /\ retn = Min(8 * Len(outbuf), m - pre)
             /\ \A j \in 1..Len(outbuf) :
                    outbuf[j] = IF 8 * (j - 1) < retn
                                THEN PackedByte(truth[ri], pre + 8 * (j - 1), 0)
                                ELSE 255

(***************************************************************************)
(* C12  FB8: when the stream ends inside a record, the read that reaches   *)
(* the end of the stream throws; read_bits_into_bytes never returns        *)
(* normally with fewer bits than the buffer and the record have room for,  *)
(* and the record never reaches end-of-record.                             *)
(***************************************************************************)
C12_MidRecordEndOfStreamThrows ==
    (kind = "truncated_b8" /\ RecordOpen /\ op = "read_bits_into_bytes" /\ Ok(rd))
    => retn = Min(8 * Len(outbuf), m - pre)

(***************************************************************************)
(* C13  FHITS and FDETS: the record start_record decodes holds at each     *)
(* position the parity of the number of times its index occurs on the      *)
(* line (twice: 0, once or three times: 1) whatever the order of the       *)
(* tokens, with nothing left of the record before; read_bit returns those  *)
(* bits.                                                                   *)
(***************************************************************************)
\* a HITS or DETS stream of lines whose token parities are the records of truth
ParityEncoded == fmt \in {"HITS", "DETS"} /\ kind \in {"writer", "toggle"}

C13_IndexTokensToggle ==
    (ParityEncoded /\ RecordOpen /\ Ok(rd) /\ ri <= Len(truth))
    => /\ rd.buffer = truth[ri]
       /\ (op = "read_bit") => retb = truth[ri][pre + 1]

C13_Witness ==
    /\ ParityEncoded /\ kind = "toggle" /\ RecordOpen /\ Ok(rd)
    /\ op = "start_record" /\ ri = 2
    /\ truth[1] = ZeroBits(Width) /\ rd.buffer = truth[2]

(***************************************************************************)
(* C14  FHITS and FDETS: on a line holding an index token whose value is   *)
(* at or past the width of its section, start_record throws and does not   *)
(* return true.                                                            *)
(***************************************************************************)
C14_IndexPastWidthFails ==
    (kind = "range" /\ nstart = 1 /\ op \in {"start_record", "next_record"})
    => /\ ~retb
       /\ rd.err \in {"runtime_error", "invalid_argument"}
       /\ rd.off > 0

C14_Witness ==
    /\ kind = "range" /\ fmt = "HITS" /\ m = MaxM /\ nstart = 1
    /\ op = "start_record" /\ rd.err = "runtime_error"
    /\ in_bytes = <<CH0, COMMA, CH0 + m, NL>>

(***************************************************************************)
(* C16  FDETS: the first start_record returns true only on a line that is  *)
(* the literal "shot" followed by tokens each preceded by one or more      *)
(* spaces and made of a prefix M, D or L and one or more digits; on a      *)
(* stream that is empty it returns false without an error; on any other    *)
(* line (keyword missing, wrong or cut, token without a space before it,   *)
(* unknown prefix, prefix without digits) it throws.                       *)
(***************************************************************************)
ByteAt(i) == IF i <= Len(in_bytes) THEN in_bytes[i] ELSE EOF

RECURSIVE SkipDigits(_)
SkipDigits(i) == IF isdigit(ByteAt(i)) THEN SkipDigits(i + 1) ELSE i

\* the tokens of a line from byte i on, spaced telling that a space precedes byte i
RECURSIVE DetsTokensOk(_, _)
DetsTokensOk(i, spaced) ==
    IF ByteAt(i) = SPACE THEN DetsTokensOk(i + 1, TRUE)
    ELSE IF ByteAt(i) \in {NL, EOF} THEN TRUE
    ELSE IF ~spaced THEN FALSE
    ELSE IF ByteAt(i) \in {CHM, CHD, CHL} /\ isdigit(ByteAt(i + 1))
    THEN DetsTokensOk(SkipDigits(i + 1), FALSE)
    ELSE FALSE

FirstLineIsDets ==
    /\ Len(in_bytes) >= Len(KW_SHOT)
    /\ SubSeq(in_bytes, 1, Len(KW_SHOT)) = KW_SHOT
    /\ DetsTokensOk(Len(KW_SHOT) + 1, FALSE)

C16_DetsLineSyntax ==
    (fmt = "DETS" /\ nstart = 1 /\ op \in {"start_record", "next_record"})
    => /\ (Ok(rd) /\ retb) => FirstLineIsDets
       /\ in_bytes = << >> => (Ok(rd) /\ ~retb)
       /\ (in_bytes # << >> /\ ~FirstLineIsDets)
          => (~retb /\ rd.err \in {"runtime_error", "invalid_argument"})
       /\ (kind = "syntax" /\ in_bytes # << >> /\ FirstLineIsDets) => (Ok(rd) /\ retb)

C16_Witness ==
    /\ kind = "syntax" /\ nstart = 1 /\ op = "start_record"
    /\ in_bytes = KW_SHOT \o <<SPACE, CHM, CH0, CHD, CH0, NL>>
    /\ rd.err = "invalid_argument" /\ ~retb

(***************************************************************************)
(* C17  FDETS: current_result_type at position p is M for p < m, D for     *)
(* m <= p < m+d, L for m+d <= p < m+d+l; at the terminus p = m+d+l it is   *)
(* the label of the last non-empty section, M when there is none.  (For    *)
(* the other formats it is M.)                                             *)
(***************************************************************************)
SectionLabel(p) ==
    IF p < m THEN "M"
    ELSE IF p < m + d THEN "D"
    ELSE IF p < m + d + l THEN "L"
    ELSE IF l > 0 THEN "L"
    ELSE IF d > 0 THEN "D"
    ELSE "M"

C17_ResultTypeIsSectionLabel ==
    op = "current_result_type"
    => /\ pre <= Width
       /\ retc = IF fmt = "DETS" THEN SectionLabel(pre) ELSE "M"

C17_Witness ==
    /\ op = "current_result_type" /\ fmt = "DETS" /\ RecordOpen
    /\ m > 0 /\ d > 0 /\ l = 0
    /\ pre = Width /\ retc = "D"

(***************************************************************************)
(* C18  FDETS: while the position advances inside a record (any step that  *)
(* is not the start of a record), current_result_type never goes back in   *)
(* the order M < D < L.                                                    *)
(***************************************************************************)
LabelRank(c) == CASE c = "M" -> 0 [] c = "D" -> 1 [] c = "L" -> 2

C18_ResultTypeMonotonic ==
    [][(fmt = "DETS" /\ Ok(rd) /\ Ok(rd') /\ op' \notin {"start_record", "next_record"})
       => /\ Position(rd') >= Position(rd)
          /\ LabelRank(current_result_type(rd')) >= LabelRank(current_result_type(rd))]_vars

C18_Witness ==
    /\ fmt = "DETS" /\ RecordOpen /\ Ok(rd) /\ op = "read_bit"
    /\ m > 0 /\ d = 0 /\ l > 0
    /\ pre = m - 1 /\ current_result_type(rd) = "L"

(***************************************************************************)
(* C19  The default read_bits_into_bytes (F01, FHITS, FDETS): at           *)
(* end-of-record it returns 0 and touches nothing; otherwise it delivers,  *)
(* little-endian from bit 0 of the output, the bits up to the first of:    *)
(* the output is full, the record ends, the result type changes.  All the  *)
(* bits of one call have one label; the bits above the last one in its     *)
(* byte are zero and the bytes after it are left as they were.             *)
(***************************************************************************)
WithPosition(s, p) ==
    IF fmt \in {"HITS", "DETS"} THEN [s EXCEPT !.position_in_buffer = p]
    ELSE [s EXCEPT !.position = p]

LabelAt(p) == current_result_type(WithPosition(rd, p))

\* the first position after p where the record ends or the label changes
RECURSIVE SectionEnd(_, _)
SectionEnd(p, q) ==
    IF q >= Width \/ LabelAt(q) # LabelAt(p) THEN q ELSE SectionEnd(p, q + 1)

UsesDefaultBulkRead == fmt \in {"01", "HITS", "DETS"}

C19_DefaultBulkRead ==
    (UsesDefaultBulkRead /\ op = "read_bits_into_bytes" /\ Ok(rd))
    => /\ was_end => (retn = 0 /\ Position(rd) = pre /\ \A j \in 1..Len(outbuf) : outbuf[j] = 255)
       /\ ~was_end
          => /\ retn = Min(8 * Len(outbuf), SectionEnd(pre, pre + 1) - pre)
             /\ retn > 0
             /\ Position(rd) = pre + retn
             /\ \A p \in pre..(pre + retn - 1) : LabelAt(p) = LabelAt(pre)
             /\ \A i \in 0..(8 * Len(outbuf) - 1) :
                    /\ (i >= retn /\ i \div 8 <= (retn - 1) \div 8) => ~BufBit(outbuf, i)
                    /\ (i \div 8 > (retn - 1) \div 8) => BufBit(outbuf, i)
                    /\ (i < retn /\ fmt # "01") => BufBit(outbuf, i) = rd.buffer[pre + i + 1]
                    /\ (i < retn /\ fmt = "01") => BufBit(outbuf, i) = (in_bytes[rd.off - 1 - retn + i + 1] = CH1)

C19_Witness ==
    /\ fmt = "DETS" /\ op = "read_bits_into_bytes" /\ Ok(rd) /\ RecordOpen
    /\ m = 1 /\ d > 0 /\ pre = 0 /\ retn = 1 /\ ~AtEnd(rd)

(***************************************************************************)
(* C15  read_uint64 throws for every digit string whose value does not fit *)
(* the unsigned word, and when it returns true the value is the exact      *)
(* decimal value of the digits it read and next is the byte after them.    *)
(***************************************************************************)
\* the value of the digits in_bytes[i..n], after the digits that gave acc
RECURSIVE DecimalValue(_, _, _)
DecimalValue(i, n, acc) ==
    IF i > n THEN acc ELSE DecimalValue(i + 1, n, 10 * acc + (in_bytes[i] - CH0))

LeadingDigits == SkipDigits(1) - 1

C15_ParseUnsignedExact ==
    op = "read_uint64"
    => /\ (Ok(rd) /\ retb)
          => /\ LeadingDigits > 0
             /\ retn = DecimalValue(1, LeadingDigits, 0)
             /\ lex_next = ByteAt(LeadingDigits + 1)
       /\ (LeadingDigits > 0 /\ DecimalValue(1, LeadingDigits, 0) >= UintMod)
          => rd.err = "runtime_error"
       /\ LeadingDigits = 0 => (Ok(rd) /\ ~retb)

(***************************************************************************)
(* C20  Row-major read_records_into on a well-formed stream returns        *)
(* min(max_shots, padded rows of the table, records in the stream), and    *)
(* the rows from that index on are left as they were.                      *)
(***************************************************************************)
C20_ReturnsRecordsPopulated ==
    (op = "read_records_into" /\ wf /\ num_minor_bits_padded(table0) >= Width)
    => /\ Ok(rd)
       /\ retn = Min(shots, Min(num_major_bits_padded(table0), Len(truth)))
       /\ \A r \in (retn + 1)..Len(table) : table[r] = table0[r]

(***************************************************************************)
(* C21  When the first record of the stream holds more bits than a row of  *)
(* the table can take, row-major read_records_into throws invalid_argument;*)
(* it never returns normally with such a record counted as read.           *)
(***************************************************************************)
RowTooShort ==
    /\ op = "read_records_into"
    /\ shots >= 1
    /\ num_major_bits_padded(table0) >= 1
    /\ num_minor_bits_padded(table0) < Width

FirstStartReturnsTrue == ReturnedTrue(start_record(make(fmt, m, d, l)))

C21_LongRecordThrows ==
    RowTooShort
    => /\ Ok(rd) => retn = 0
       /\ FirstStartReturnsTrue => (rd.err = "invalid_argument" /\ retn = 0)

C21_Witness ==
    /\ RowTooShort
    /\ FirstStartReturnsTrue
    /\ wf
    /\ fmt = "HITS"
    /\ rd.err = "invalid_argument"

(***************************************************************************)
(* C22  A column-major read_records_into ends like the row-major read of   *)
(* the same stream into a zeroed table of the swapped shape (same          *)
(* exception or same count) and, when it returns, its table is that        *)
(* table's transpose: bit b of shot s is at out[b][s].  On a well-formed   *)
(* stream the bits of the shots read are the records' bits.                *)
(***************************************************************************)
RowMajorRead ==
    read_records_into(make(fmt, m, d, l),
                      NewTable(num_minor_bits_padded(table0), num_major_bits_padded(table0), 0),
                      TRUE, shots)

IsTransposeOf(out, tbl) ==
    \A b \in 0..(num_major_bits_padded(out) - 1), s \in 0..(num_minor_bits_padded(out) - 1) :
        TableBit(out, b, s) = TableBit(tbl, s, b)

C22_ColumnMajorIsTranspose ==
    op = "read_records_into_minor"
    => /\ rd.err = RowMajorRead.s.err
       /\ retn = RowMajorRead.n
       /\ Ok(rd) => IsTransposeOf(table, RowMajorRead.tbl)
       /\ (Ok(rd) /\ wf)
          => \A s \in 1..retn : \A b \in 1..Width :
                 TableBit(table, b - 1, s - 1) = (IF truth[s][b] THEN 1 ELSE 0)

\* the scenario F01, m = 3, "010\n111\n"
C22_Witness ==
    /\ op = "read_records_into_minor"
    /\ fmt = "01"
    /\ m = 3
    /\ in_bytes = <<CH0, CH1, CH0, NL, CH1, CH1, CH1, NL>>
    /\ Ok(rd)
    /\ retn = 2
    /\ <<TableBit(table, 0, 0), TableBit(table, 1, 0), TableBit(table, 2, 0)>> = <<0, 1, 0>>
    /\ <<TableBit(table, 0, 1), TableBit(table, 1, 1), TableBit(table, 2, 1)>> = <<1, 1, 1>>

(***************************************************************************)
(* C23  make returns a reader exactly when the tag is DETS, or is one of   *)
(* 01, B8, HITS, R8 with d = 0 and l = 0, and the reader is the one the    *)
(* tag's constructor builds; in every other case it throws                 *)
(* invalid_argument and no reader exists.                                  *)
(***************************************************************************)
Accepted == fmt = "DETS" \/ (fmt \in {"01", "B8", "HITS", "R8"} /\ d = 0 /\ l = 0)

C23_FactoryAcceptsExactly ==
    op = "make"
    => /\ Ok(rd) <=> Accepted
       /\ ~Accepted => rd = [NoReader EXCEPT !.err = "invalid_argument"]
       /\ (fmt = "01" /\ Accepted) => rd = NewFormat01(m)
       /\ (fmt = "B8" /\ Accepted) => rd = NewFormatB8(m)
       /\ (fmt = "HITS" /\ Accepted) => rd = NewFormatHits(m)
       /\ (fmt = "R8" /\ Accepted) => rd = NewFormatR8(m)
       /\ fmt = "DETS" => rd = NewFormatDets(m, d, l)

\* a tag other than DETS with observables only is refused
C23_Witness ==
    /\ kind = "factory"
    /\ op = "make"
    /\ fmt = "R8"
    /\ d = 0
    /\ l > 0
    /\ rd.err = "invalid_argument"

(***************************************************************************)
(* Vocabulary of the R8 claims: the run that starts at byte i of the       *)
(* stream, and the buffering step as start_record and read_bit enter it    *)
(***************************************************************************)
\* index of the byte that ends the run starting at byte i: the first one that is
\* not a continuation; past the stream when it ends on continuations
RECURSIVE RunEnd(_)
RunEnd(i) == IF ByteAt(i) = CONT THEN RunEnd(i + 1) ELSE i

\* the zeros the run encodes
RECURSIVE RunZeros(_)
RunZeros(i) ==
    IF ByteAt(i) = EOF THEN 0
    ELSE IF ByteAt(i) = CONT THEN CONT + RunZeros(i + 1)
    ELSE ByteAt(i)

\* read_bit enters the buffering step (the call sits in an assert)
StepByReadBit ==
    /\ fmt = "R8" /\ Ok(rd) /\ op' = "read_bit"
    /\ ~ndebug
    /\ rd.buffered_0s = 0 /\ rd.buffered_1s = 0
    /\ ~AtEnd(rd)

\* start_record enters the buffering step and passes its leading asserts
StepByStart ==
    /\ fmt = "R8" /\ Ok(rd) /\ op' = "start_record"
    /\ ndebug \/ (rd.buffered_0s = 0 /\ rd.buffered_1s = 0)

EntryPosition == IF op' = "start_record" THEN 0 ELSE rd.position

\* the run at the reader's offset is complete, and total_data after it
RunRead == RunEnd(rd.off + 1) <= Len(in_bytes)
TotalData == EntryPosition + rd.buffered_0s + RunZeros(rd.off + 1) + 1

(***************************************************************************)
(* C24  R8 buffering step, total_data = m: the byte after the run must be  *)
(* 0x00, else the step throws invalid_argument (also at the end of the     *)
(* stream); when it is, it is consumed, have_seen_terminal_1 is set and    *)
(* the one stays buffered behind the run's zeros, and read_bit returns it  *)
(* as the bit at position m - 1, after which the record is at its end.     *)
(***************************************************************************)
TerminatorFollows == ByteAt(RunEnd(rd.off + 1) + 1) = 0

C24_Step ==
    /\ (StepByStart /\ RunRead /\ TotalData = m)
       => IF TerminatorFollows
          THEN /\ Ok(rd') /\ retb'
               /\ rd'.have_seen_terminal_1
               /\ rd'.off = RunEnd(rd.off + 1) + 1
               /\ rd'.buffered_1s = 1
               /\ rd'.buffered_0s = m - 1
               /\ rd'.position = 0
          ELSE rd'.err = "invalid_argument"
    /\ (StepByReadBit /\ RunRead /\ TotalData = m)
       => IF TerminatorFollows
          THEN /\ Ok(rd')
               /\ rd'.have_seen_terminal_1
               /\ rd'.off = RunEnd(rd.off + 1) + 1
               /\ rd'.position = rd.position + 1
               /\ retb' = (rd.position = m - 1)
               /\ rd'.buffered_1s = (IF retb' THEN 0 ELSE 1)
               /\ rd'.position + rd'.buffered_0s + rd'.buffered_1s = m
          ELSE rd'.err = "invalid_argument"
    /\ (fmt = "R8" /\ Ok(rd) /\ op' = "read_bit" /\ Ok(rd')
        /\ rd.have_seen_terminal_1 /\ rd.buffered_1s = 1)
       => /\ retb' = (rd.position = m - 1)
          /\ retb' => AtEnd(rd')

C24_OneOnLastBit == [][C24_Step]_vars

\* m = 3, {0x01, 0x00, 0x00}: the runs 1 and 0 put ones at positions 1 and 2; the last
\* read_bit entered the step with total_data = m and returned the one
C24_Witness ==
    /\ kind = "r8_bytes" /\ m = 3 /\ ~ndebug
    /\ in_bytes = <<1, 0, 0>>
    /\ op = "read_bit" /\ Ok(rd) /\ retb
    /\ pre = 2 /\ rd.off = 3
    /\ rd.have_seen_terminal_1
    /\ AtEnd(rd)

(***************************************************************************)
(* C25  R8 buffering step, total_data past m: at m + 1 the one is dropped  *)
(* (buffered_1s = 0), have_seen_terminal_1 is set, no byte beyond the run  *)
(* is consumed and only zeros are left to read; above m + 1 the step       *)
(* throws invalid_argument.  The position never exceeds m.                 *)
(***************************************************************************)
C25_Step ==
    /\ (StepByStart /\ RunRead /\ TotalData = m + 1)
       => /\ Ok(rd') /\ retb'
          /\ rd'.have_seen_terminal_1
          /\ rd'.off = RunEnd(rd.off + 1)
          /\ rd'.buffered_1s = 0
          /\ rd'.buffered_0s = m
          /\ rd'.position = 0
    /\ (StepByReadBit /\ RunRead /\ TotalData = m + 1)
       => IF rd.position < m
          THEN /\ Ok(rd') /\ ~retb'
               /\ rd'.have_seen_terminal_1
               /\ rd'.off = RunEnd(rd.off + 1)
               /\ rd'.buffered_1s = 0
               /\ rd'.position = rd.position + 1
               /\ rd'.position + rd'.buffered_0s = m
          ELSE rd'.err = "invalid_argument"
    /\ ((StepByStart \/ StepByReadBit) /\ RunRead /\ TotalData > m + 1)
       => rd'.err = "invalid_argument"
    /\ (fmt = "R8" /\ Ok(rd) /\ Ok(rd') /\ op' = "read_bit"
        /\ rd.have_seen_terminal_1 /\ rd.buffered_1s = 0)
       => ~retb'
    /\ (fmt = "R8" /\ Ok(rd')) => rd'.position <= m

C25_PastTheEnd == [][C25_Step]_vars

\* m = 3, {0x03}: the run of three zeros carries the one past the end
C25_Witness ==
    /\ kind = "r8_bytes" /\ m = 3
    /\ in_bytes = <<3>>
    /\ op = "start_record" /\ Ok(rd) /\ retb
    /\ rd.have_seen_terminal_1
    /\ rd.buffered_0s = 3 /\ rd.buffered_1s = 0 /\ rd.off = 1

(***************************************************************************)
(* C26  R8, end of the stream inside the buffering step: start_record      *)
(* returns false, consuming nothing, when no zeros are buffered and the    *)
(* stream is at its end; the end met after continuation bytes, with zeros  *)
(* buffered, or by a read after bits of the record were read, throws       *)
(* invalid_argument.                                                       *)
(***************************************************************************)
NothingBuffered == rd.buffered_0s = 0 /\ rd.buffered_1s = 0

C26_Step ==
    /\ (StepByStart /\ ~RunRead)
       => IF rd.buffered_0s = 0 /\ ByteAt(rd.off + 1) = EOF
          THEN /\ Ok(rd') /\ ~retb'
               /\ rd'.position = 0
               /\ rd'.buffered_0s = 0
               /\ rd'.off = rd.off
          ELSE rd'.err = "invalid_argument"
    /\ (StepByReadBit /\ ~RunRead /\ (rd.position > 0 \/ ByteAt(rd.off + 1) = CONT))
       => rd'.err = "invalid_argument"
    /\ (/\ fmt = "R8" /\ Ok(rd) /\ ~RunRead
        /\ op' \in {"read_bit", "read_bits_into_bytes", "next_record"}
        /\ NothingBuffered /\ ~rd.have_seen_terminal_1 /\ rd.position > 0)
       => rd'.err = "invalid_argument"

C26_EndOfStreamCleanOnlyAtStart == [][C26_Step]_vars

\* the stream {0xFF} alone
C26_Witness ==
    /\ kind = "r8_bytes"
    /\ in_bytes = <<CONT>>
    /\ op = "start_record"
    /\ rd.err = "invalid_argument"

(***************************************************************************)
(* C27  R8, while a record is open (start_record or next_record returned   *)
(* true and no call has thrown since): position + buffered_0s +            *)
(* buffered_1s <= m, with equality exactly when have_seen_terminal_1 is    *)
(* set; so position <= m, and at end-of-record both counters are zero.     *)
(***************************************************************************)
C27_RunCountersBounded ==
    (fmt = "R8" /\ Ok(rd) /\ RecordOpen)
    => /\ rd.position + rd.buffered_0s + rd.buffered_1s <= m
       /\ (rd.position + rd.buffered_0s + rd.buffered_1s = m) <=> rd.have_seen_terminal_1
       /\ rd.position <= m
       /\ AtEnd(rd) => (rd.buffered_0s = 0 /\ rd.buffered_1s = 0)

\* m = 10, {0x09, 0x00}: read_bits_into_bytes skips eight zeros at once
C27_Witness ==
    /\ kind = "r8_bytes" /\ m = 10
    /\ in_bytes = <<9, 0>>
    /\ RecordOpen /\ Ok(rd)
    /\ op = "read_bits_into_bytes" /\ pre = 0 /\ retn = 8 /\ Len(outbuf) = 1
    /\ rd.position = 8 /\ rd.buffered_0s = 1 /\ rd.buffered_1s = 1
    /\ rd.have_seen_terminal_1

(***************************************************************************)
(* C28  R8: no sequence of contract operations trips an assert of the      *)
(* buffering step or of its callers (buffered_0s == 0, buffered_1s == 0 on *)
(* entry; the step returns true under read_bit and read_bits_into_bytes).  *)
(***************************************************************************)
C28_AssertionsHold == fmt = "R8" => rd.err # "assert"

(***************************************************************************)
(* C29  Every format: right after start_record or next_record returned     *)
(* false, read_bit throws an exception and read_bits_into_bytes delivers   *)
(* no bits, and neither trips an assertion.                                *)
(***************************************************************************)
StartReturnedFalse == op \in {"start_record", "next_record"} /\ Ok(rd) /\ ~retb

C29_Step ==
    /\ (StartReturnedFalse /\ op' = "read_bit") => rd'.err \in Exceptions
    /\ (StartReturnedFalse /\ op' = "read_bits_into_bytes")
       => (retn' = 0 /\ rd'.err # "assert")

C29_NoRecordOpenAfterFalse == [][C29_Step]_vars

====
